---- MODULE Spec2Model ----
(***************************************************************************)
(* State-machine model of src/main.js (laser eyes simulator): the two mode *)
(* flags, the two laser markers, the camera, the debug overlay canvas, the *)
(* render target, and the event handlers that change them.                 *)
(*                                                                         *)
(* Numbers the code keeps as floats are kept here as exact rationals       *)
(* <<numerator, denominator>> in lowest terms with a positive denominator. *)
(***************************************************************************)
EXTENDS Integers, Sequences, FiniteSets, TLC

VARIABLES
    isDebugMode,         \* main.js:18
    isLaserMode,         \* main.js:19
    settings,            \* main.js:22  [showLandmarks]
    landmarksController, \* main.js:26  the lil-gui checkbox: [checked]
    laserBtn,            \* main.js:15  [backgroundColor]
    lasers,              \* main.js:95  <<left, right>>, each [visible, position]
    camera,              \* main.js:94  [fov, aspect]
    debugCanvas,         \* main.js:12  [width, height, drawn]
    canvasElement,       \* main.js:11  which pipeline drew the last frame
    download             \* main.js:65  the image the last capture saved

vars == <<isDebugMode, isLaserMode, settings, landmarksController, laserBtn,
          lasers, camera, debugCanvas, canvasElement, download>>

----------------------------------------------------------------------------
(* Bounds of the model *)

\* The most face observations one detection result carries.
MaxFaces == 2

----------------------------------------------------------------------------
(* Exact rational arithmetic standing for the code's float arithmetic *)

Abs(n) == IF n < 0 THEN -n ELSE n

RECURSIVE GCD(_, _)
GCD(a, b) == IF b = 0 THEN a ELSE GCD(b, a % b)

\* n/d in lowest terms, d made positive: the one representation of a value,
\* so that equal numbers are equal pairs.
Rat(n, d) ==
    LET g == GCD(Abs(n), Abs(d))
        s == IF d < 0 THEN -1 ELSE 1
    IN  <<(s * n) \div g, (s * d) \div g>>

Norm(p) == Rat(p[1], p[2])

\* Products, differences and negations of fractions with positive
\* denominators; the results are reduced by Norm where they are stored.
RMul(p, q) == <<p[1] * q[1], p[2] * q[2]>>
RSub(p, q) == <<p[1] * q[2] - q[1] * p[2], p[2] * q[2]>>
RNeg(p)    == <<-p[1], p[2]>>
RLess(p, q) == p[1] * q[2] < q[1] * p[2]

Zero == <<0, 1>>
Half == <<1, 2>>

----------------------------------------------------------------------------
(* Landmarks and face observations *)

\* The landmark indices updateMask reads.
leftEyeIdx     == 468
rightEyeIdx    == 473
noseIdx        == 1
leftTempleIdx  == 234
rightTempleIdx == 454
foreheadIdx    == 10
chinIdx        == 152

Required == {leftEyeIdx, rightEyeIdx, noseIdx, leftTempleIdx, rightTempleIdx,
             foreheadIdx, chinIdx}

\* An observation is a function from the indices it holds to landmarks;
\* landmarks[i] is undefined exactly when i is not in its domain.
Landmark(x, y, z) == [x |-> x, y |-> y, z |-> z]

\* A face looking straight at the lens: the left iris on the frame centre,
\* the right iris a quarter of the frame to its side.
FaceA ==
    [i \in Required |->
        CASE i = leftEyeIdx     -> Landmark(Half, Half, Zero)
          [] i = rightEyeIdx    -> Landmark(<<1, 4>>, Half, Zero)
          [] i = noseIdx        -> Landmark(<<3, 8>>, <<3, 5>>, <<-1, 20>>)
          [] i = leftTempleIdx  -> Landmark(<<3, 4>>, Half, <<1, 10>>)
          [] i = rightTempleIdx -> Landmark(Zero, Half, <<1, 10>>)
          [] i = foreheadIdx    -> Landmark(<<3, 8>>, <<1, 5>>, Zero)
          [] i = chinIdx        -> Landmark(<<3, 8>>, <<9, 10>>, Zero)]

\* A face partly outside the frame: the left iris beyond the right and top
\* edges, the right iris on the frame centre but far behind the face plane.
FaceB ==
    [i \in Required |->
        CASE i = leftEyeIdx     -> Landmark(<<5, 4>>, <<-1, 4>>, <<1, 2>>)
          [] i = rightEyeIdx    -> Landmark(Half, Half, <<-2, 1>>)
          [] i = noseIdx        -> Landmark(<<7, 8>>, <<1, 8>>, Zero)
          [] i = leftTempleIdx  -> Landmark(<<3, 2>>, Zero, <<1, 2>>)
          [] i = rightTempleIdx -> Landmark(<<1, 2>>, Zero, <<-1, 2>>)
          [] i = foreheadIdx    -> Landmark(<<7, 8>>, <<-1, 2>>, Zero)
          [] i = chinIdx        -> Landmark(<<7, 8>>, <<1, 2>>, Zero)]

\* The observation f with index i absent.
Without(f, i) == [j \in (DOMAIN f) \ {i} |-> f[j]]

CompleteFaces == {FaceA, FaceB}
PartialFaces  == {Without(FaceB, i) : i \in Required}
Faces         == CompleteFaces \cup PartialFaces

\* The faces a result carries after its first one. The detector is set to
\* track one face (maxNumFaces: 1); lists of several faces exercise the loop
\* of onResults over a smaller pool.
FurtherFaces == CompleteFaces \cup {Without(FaceB, leftEyeIdx)}

\* The lists of n faces: any face alone, pool faces when there are several.
FaceListsOf(n) == IF n <= 1 THEN [1..n -> Faces] ELSE [1..n -> FurtherFaces]

\* The result object handed to onResults: its multiFaceLandmarks field is
\* absent, or a list of at most MaxFaces faces.
FaceLists == UNION {FaceListsOf(n) : n \in 0..MaxFaces}
Results   == {[image |-> "frame"]}
             \cup {[image |-> "frame", multiFaceLandmarks |-> m] : m \in FaceLists}

\* Container sizes the page can have (clientWidth, clientHeight).
Containers == {<<1280, 720>>, <<600, 800>>}

----------------------------------------------------------------------------
(* Constants of the code *)

fov       == 75   \* main.js:106
baseDepth == 5    \* main.js:405

laserOnColor  == "rgba(255, 0, 0, 0.5)"
laserOffColor == "rgba(0, 0, 0, 0.7)"

\* Math.tan(vFOV / 2) for the vertical field of view in degrees, to three
\* decimals.
TanHalf(deg) ==
    CASE deg = 75 -> <<767, 1000>>

Origin == <<Zero, Zero, Zero>>

----------------------------------------------------------------------------
(* Initial state: the module body has run (initThreeJS, animate's first    *)
(* call is modelled by the animate action)                                 *)

Init ==
    /\ isDebugMode = FALSE
    /\ isLaserMode = TRUE
    /\ settings = [showLandmarks |-> FALSE]
    /\ landmarksController = [checked |-> FALSE]
    /\ laserBtn = [backgroundColor |-> "stylesheet"]
    /\ lasers = <<[visible |-> FALSE, position |-> Origin],
                  [visible |-> FALSE, position |-> Origin]>>
    /\ \E c \in Containers :
          /\ camera = [fov |-> fov, aspect |-> Rat(c[1], c[2])]
          /\ debugCanvas = [width |-> c[1], height |-> c[2], drawn |-> 0]
    /\ canvasElement = "blank"
    /\ download = "none"

----------------------------------------------------------------------------
(* Pure parts of the handlers *)

\* debugCtx.clearRect over the whole canvas.
clearRect(canvas) == [canvas EXCEPT !.drawn = 0]

\* lasers.forEach(l => l.visible = false)
hideAll(ls) == [k \in DOMAIN ls |-> [ls[k] EXCEPT !.visible = FALSE]]

\* The height and the width of the view frustum at baseDepth.
visibleHeight(cam) == RMul(RMul(<<2, 1>>, TanHalf(cam.fov)), <<baseDepth, 1>>)
visibleWidth(cam)  == RMul(visibleHeight(cam), cam.aspect)

\* mapToWorld that clamps x and y into [0, 1] first.
mapToWorld_clamped(landmark, cam) ==
    LET clamp(v) == IF RLess(v, Zero) THEN Zero
                    ELSE IF RLess(<<1, 1>>, v) THEN <<1, 1>> ELSE v
        x == RNeg(RMul(RSub(clamp(landmark.x), Half), visibleWidth(cam)))
        y == RNeg(RMul(RSub(clamp(landmark.y), Half), visibleHeight(cam)))
        z == RMul(RNeg(landmark.z), visibleWidth(cam))
    IN  <<Norm(x), Norm(y), Norm(z)>>

mapToWorld(landmark, cam) ==
    LET vh == visibleHeight(cam)
        vw == visibleWidth(cam)
        x  == RNeg(RMul(RSub(landmark.x, Half), vw))
        y  == RNeg(RMul(RSub(landmark.y, Half), vh))
        z  == RMul(RNeg(landmark.z), vw)
    IN  <<Norm(x), Norm(y), Norm(z)>>

\* !landmarks[i]
Missing(landmarks, i) == i \notin DOMAIN landmarks

\* updateMask that places and shows the markers whatever the laser mode.
updateMask_ignoreMode(landmarks, ls, laserMode, cam) ==
    IF \E i \in Required : i \notin DOMAIN landmarks
    THEN ls
    ELSE <<[visible |-> TRUE, position |-> mapToWorld(landmarks[leftEyeIdx], cam)],
           [visible |-> TRUE, position |-> mapToWorld(landmarks[rightEyeIdx], cam)]>>

\* updateMask with the two markers' positions exchanged.
updateMask_swapped(landmarks, ls, laserMode, cam) ==
    IF \E i \in Required : i \notin DOMAIN landmarks
    THEN ls
    ELSE IF laserMode
         THEN <<[visible |-> TRUE, position |-> mapToWorld(landmarks[rightEyeIdx], cam)],
                [visible |-> TRUE, position |-> mapToWorld(landmarks[leftEyeIdx], cam)]>>
         ELSE <<[ls[1] EXCEPT !.visible = FALSE], [ls[2] EXCEPT !.visible = FALSE]>>

\* updateMask whose guard forgets the chin: an observation without it is
\* mapped like a complete one.
updateMask_noChinCheck(landmarks, ls, laserMode, cam) ==
    IF \E i \in Required \ {chinIdx} : i \notin DOMAIN landmarks
    THEN ls
    ELSE IF laserMode
         THEN <<[visible |-> TRUE, position |-> mapToWorld(landmarks[leftEyeIdx], cam)],
                [visible |-> TRUE, position |-> mapToWorld(landmarks[rightEyeIdx], cam)]>>
         ELSE <<[ls[1] EXCEPT !.visible = FALSE], [ls[2] EXCEPT !.visible = FALSE]>>

\* updateMask that hides the markers when a required index is missing.
updateMask_hideOnMissing(landmarks, ls, laserMode, cam) ==
    IF \E i \in Required : i \notin DOMAIN landmarks
    THEN <<[ls[1] EXCEPT !.visible = FALSE], [ls[2] EXCEPT !.visible = FALSE]>>
    ELSE IF laserMode
         THEN <<[visible |-> TRUE, position |-> mapToWorld(landmarks[leftEyeIdx], cam)],
                [visible |-> TRUE, position |-> mapToWorld(landmarks[rightEyeIdx], cam)]>>
         ELSE <<[ls[1] EXCEPT !.visible = FALSE], [ls[2] EXCEPT !.visible = FALSE]>>

\* The markers after updateMask(landmarks), from markers ls.
updateMask(landmarks, ls, laserMode, cam) ==
    IF \/ Missing(landmarks, leftEyeIdx)
       \/ Missing(landmarks, rightEyeIdx)
       \/ Missing(landmarks, noseIdx)
       \/ Missing(landmarks, leftTempleIdx)
       \/ Missing(landmarks, rightTempleIdx)
       \/ Missing(landmarks, foreheadIdx)
       \/ Missing(landmarks, chinIdx)
    THEN ls
    ELSE LET leftEyePos  == mapToWorld(landmarks[leftEyeIdx], cam)
             rightEyePos == mapToWorld(landmarks[rightEyeIdx], cam)
         IN  IF Len(ls) = 2
             THEN IF laserMode
                  THEN <<[visible |-> TRUE, position |-> leftEyePos],
                         [visible |-> TRUE, position |-> rightEyePos]>>
                  ELSE <<[ls[1] EXCEPT !.visible = FALSE],
                         [ls[2] EXCEPT !.visible = FALSE]>>
             ELSE ls

\* The loop of onResults over the faces from the k-th on: the markers and
\* the overlay after it.
RECURSIVE forEachFace(_, _, _, _, _, _, _)
forEachFace(faces, k, ls, canvas, debugMode, laserMode, cam) ==
    IF k > Len(faces)
    THEN [lasers |-> ls, debugCanvas |-> canvas]
    ELSE forEachFace(faces, k + 1,
                     updateMask(faces[k], ls, laserMode, cam),
                     IF debugMode
                     THEN [canvas EXCEPT !.drawn = @ + 1]
                     ELSE canvas,
                     debugMode, laserMode, cam)

\* event.key.toLowerCase() on the keys the model presses.
toLowerCase(key) ==
    CASE key = "F" -> "f"
      [] key = "L" -> "l"
      [] key = "C" -> "c"
      [] OTHER     -> key

Keys     == {"f", "F", "l", "L", "c", "C", "x"}
TagNames == {"BODY", "BUTTON", "INPUT", "TEXTAREA"}

\* The pipeline a frame is drawn with.
renderPass(laserMode) == IF laserMode THEN "composer" ELSE "renderer"

----------------------------------------------------------------------------
(* Handlers *)

\* toggleDebug that leaves settings.showLandmarks and the checkbox behind.
toggleDebug_noSync ==
    /\ isDebugMode' = ~isDebugMode
    /\ debugCanvas' = IF ~isDebugMode' THEN clearRect(debugCanvas) ELSE debugCanvas
    /\ UNCHANGED <<settings, landmarksController, isLaserMode, laserBtn, lasers,
                   camera, canvasElement, download>>

\* toggleDebug that does not clear the overlay when the flag goes off.
toggleDebug_noClear ==
    /\ isDebugMode' = ~isDebugMode
    /\ settings' = [settings EXCEPT !.showLandmarks = isDebugMode']
    /\ landmarksController' = [landmarksController EXCEPT !.checked = isDebugMode']
    /\ UNCHANGED <<debugCanvas, isLaserMode, laserBtn, lasers, camera,
                   canvasElement, download>>

toggleDebug ==
    /\ isDebugMode' = ~isDebugMode
    /\ settings' = [settings EXCEPT !.showLandmarks = isDebugMode']
    /\ landmarksController' = [landmarksController EXCEPT !.checked = isDebugMode']
    /\ debugCanvas' = IF ~isDebugMode' THEN clearRect(debugCanvas) ELSE debugCanvas
    /\ UNCHANGED <<isLaserMode, laserBtn, lasers, camera, canvasElement, download>>

\* toggleLaser without the hiding of the markers when the laser goes off.
toggleLaser_noHide ==
    /\ isLaserMode' = ~isLaserMode
    /\ laserBtn' = [laserBtn EXCEPT !.backgroundColor =
                        IF isLaserMode' THEN laserOnColor ELSE laserOffColor]
    /\ lasers' = lasers
    /\ UNCHANGED <<isDebugMode, settings, landmarksController, camera,
                   debugCanvas, canvasElement, download>>

\* toggleLaser that shows the markers again when the laser goes on.
toggleLaser_showOnEnable ==
    /\ isLaserMode' = ~isLaserMode
    /\ laserBtn' = [laserBtn EXCEPT !.backgroundColor =
                        IF isLaserMode' THEN laserOnColor ELSE laserOffColor]
    /\ lasers' = [k \in DOMAIN lasers |->
                     [lasers[k] EXCEPT !.visible = isLaserMode']]
    /\ UNCHANGED <<isDebugMode, settings, landmarksController, camera,
                   debugCanvas, canvasElement, download>>

toggleLaser ==
    /\ isLaserMode' = ~isLaserMode
    /\ laserBtn' = [laserBtn EXCEPT !.backgroundColor =
                        IF isLaserMode' THEN laserOnColor ELSE laserOffColor]
    /\ lasers' = IF ~isLaserMode' THEN hideAll(lasers) ELSE lasers
    /\ UNCHANGED <<isDebugMode, settings, landmarksController, camera,
                   debugCanvas, canvasElement, download>>

captureImage ==
    /\ canvasElement' = renderPass(isLaserMode)
    /\ download' = canvasElement'
    /\ UNCHANGED <<isDebugMode, isLaserMode, settings, landmarksController,
                   laserBtn, lasers, camera, debugCanvas>>

\* The keydown listener.
keydown(key, tagName) ==
    \/ /\ tagName \in {"INPUT", "TEXTAREA"}
       /\ UNCHANGED vars
    \/ /\ tagName \notin {"INPUT", "TEXTAREA"}
       /\ toLowerCase(key) = "f"
       /\ toggleDebug
    \/ /\ tagName \notin {"INPUT", "TEXTAREA"}
       /\ toLowerCase(key) = "l"
       /\ toggleLaser
    \/ /\ tagName \notin {"INPUT", "TEXTAREA"}
       /\ toLowerCase(key) = "c"
       /\ captureImage
    \/ /\ tagName \notin {"INPUT", "TEXTAREA"}
       /\ toLowerCase(key) \notin {"f", "l", "c"}
       /\ UNCHANGED vars

\* A click on the 'Show Landmarks' checkbox: the checkbox flips, the
\* controller writes the new value to settings.showLandmarks and calls the
\* onChange handler with it.
landmarksControllerChange ==
    LET value == ~landmarksController.checked
    IN  /\ landmarksController' = [landmarksController EXCEPT !.checked = value]
        /\ settings' = [settings EXCEPT !.showLandmarks = value]
        /\ isDebugMode' = value
        /\ debugCanvas' = IF ~isDebugMode' THEN clearRect(debugCanvas) ELSE debugCanvas
        /\ UNCHANGED <<isLaserMode, laserBtn, lasers, camera, canvasElement, download>>

\* Assigning a canvas's width or height resets its bitmap.
onWindowResize(width, height) ==
    /\ camera' = [camera EXCEPT !.aspect = Rat(width, height)]
    /\ debugCanvas' = [width |-> width, height |-> height, drawn |-> 0]
    /\ UNCHANGED <<isDebugMode, isLaserMode, settings, landmarksController,
                   laserBtn, lasers, canvasElement, download>>

animate ==
    /\ canvasElement' = renderPass(isLaserMode)
    /\ UNCHANGED <<isDebugMode, isLaserMode, settings, landmarksController,
                   laserBtn, lasers, camera, debugCanvas, download>>

\* onResults without the branch that hides the markers when no face came.
onResults_noHide(results) ==
    LET cleared == clearRect(debugCanvas)
    IN  /\ IF /\ "multiFaceLandmarks" \in DOMAIN results
              /\ Len(results.multiFaceLandmarks) > 0
           THEN LET after == forEachFace(results.multiFaceLandmarks, 1, lasers,
                                         cleared, isDebugMode, isLaserMode, camera)
                IN  /\ lasers' = after.lasers
                    /\ debugCanvas' = after.debugCanvas
           ELSE /\ lasers' = lasers
                /\ debugCanvas' = cleared
        /\ UNCHANGED <<isDebugMode, isLaserMode, settings, landmarksController,
                       laserBtn, camera, canvasElement, download>>

onResults(results) ==
    LET cleared == clearRect(debugCanvas)
    IN  /\ IF /\ "multiFaceLandmarks" \in DOMAIN results
              /\ Len(results.multiFaceLandmarks) > 0
           THEN LET after == forEachFace(results.multiFaceLandmarks, 1, lasers,
                                         cleared, isDebugMode, isLaserMode, camera)
                IN  /\ lasers' = after.lasers
                    /\ debugCanvas' = after.debugCanvas
           ELSE /\ lasers' = hideAll(lasers)
                /\ debugCanvas' = cleared
        /\ UNCHANGED <<isDebugMode, isLaserMode, settings, landmarksController,
                       laserBtn, camera, canvasElement, download>>

----------------------------------------------------------------------------
(* The events the page receives *)

laserBtnClick   == toggleLaser
captureBtnClick == captureImage
keydownEvent    == \E key \in Keys, tagName \in TagNames : keydown(key, tagName)
resizeEvent     == \E c \in Containers : onWindowResize(c[1], c[2])
resultsEvent    == \E results \in Results : onResults(results)

Next ==
    \/ laserBtnClick
    \/ captureBtnClick
    \/ keydownEvent
    \/ landmarksControllerChange
    \/ resizeEvent
    \/ animate
    \/ resultsEvent

Spec == Init /\ [][Next]_vars

----------------------------------------------------------------------------
(* Vocabulary of the properties *)

bothVisible == lasers[1].visible /\ lasers[2].visible
bothHidden  == ~lasers[1].visible /\ ~lasers[2].visible

\* The markers have been placed by a detection callback at least once.
placed == lasers[1].position # Origin /\ lasers[2].position # Origin

HasFaces(results) ==
    /\ "multiFaceLandmarks" \in DOMAIN results
    /\ Len(results.multiFaceLandmarks) > 0

IsComplete(face) == Required \subseteq DOMAIN face

\* Results that hold no face observation.
NoFaceResults == {r \in Results : ~HasFaces(r)}

\* Results whose observations all lack a required index.
PartialResults ==
    {r \in Results : /\ HasFaces(r)
                     /\ \A k \in DOMAIN r.multiFaceLandmarks :
                           ~IsComplete(r.multiFaceLandmarks[k])}

\* Results that deliver at least one observation with every required index.
CompleteResults ==
    {r \in Results : /\ HasFaces(r)
                     /\ \E k \in DOMAIN r.multiFaceLandmarks :
                           IsComplete(r.multiFaceLandmarks[k])}

\* The result that delivers the one face observation the detector is set to
\* track.
SingleFace(face) == [image |-> "frame", multiFaceLandmarks |-> <<face>>]

----------------------------------------------------------------------------
(* C1 *)

\* C1: whenever toggleLaser (button click or the 'l' key) runs with
\* isLaserMode true, right after it isLaserMode is false and both markers are
\* invisible, whatever their visibility and position were before.
C1_ToggleOffHidesMarkers ==
    [][(toggleLaser /\ isLaserMode)
          => (~isLaserMode' /\ ~lasers'[1].visible /\ ~lasers'[2].visible)]_vars

\* The laser is off and the markers, placed by an earlier detection, are
\* hidden at their last-known position.
C1_Witness ==
    /\ ~isLaserMode
    /\ laserBtn.backgroundColor = laserOffColor
    /\ placed
    /\ bothHidden

----------------------------------------------------------------------------
(* C8 *)

\* C8: in every reachable state, if isLaserMode is false then both markers
\* are invisible (a visible marker implies isLaserMode).
C8_LaserOffMarkersHidden ==
    \A k \in DOMAIN lasers : lasers[k].visible => isLaserMode

\* A detection callback with several faces has run (the overlay holds two
\* meshes) while the laser was off and the markers stayed hidden.
C8_Witness ==
    /\ ~isLaserMode
    /\ debugCanvas.drawn >= 2
    /\ placed
    /\ bothHidden

----------------------------------------------------------------------------
(* C10 *)

\* C10: a marker turns from invisible to visible only in a detection
\* callback that delivers a complete face while isLaserMode is true; turning
\* the laser on leaves the markers as they were (invisible, not moved); and
\* both markers always have the same visibility.
C10_VisibleOnlyByDetection ==
    [][/\ lasers[1].visible = lasers[2].visible
       /\ lasers'[1].visible = lasers'[2].visible
       /\ (\E k \in DOMAIN lasers : ~lasers[k].visible /\ lasers'[k].visible)
             => (isLaserMode /\ \E r \in CompleteResults : onResults(r))
       /\ (toggleLaser /\ ~isLaserMode)
             => (isLaserMode' /\ lasers' = lasers /\ ~lasers'[1].visible
                              /\ ~lasers'[2].visible)]_vars

\* The laser was switched off and on again (the button carries the 'on'
\* colour) and the markers, placed before, are still invisible.
C10_Witness ==
    /\ isLaserMode
    /\ laserBtn.backgroundColor = laserOnColor
    /\ placed
    /\ bothHidden

----------------------------------------------------------------------------
(* C2 *)

\* C2: every detection callback that delivers a face observation with all
\* seven required indices leaves, whatever the markers were before, both
\* markers visible with marker 0 at the mapped point of landmark 468 and
\* marker 1 at the mapped point of landmark 473 when isLaserMode is true, and
\* both markers invisible when isLaserMode is false.
C2_CompleteFacePlacesMarkers ==
    [][\A face \in CompleteFaces :
          onResults(SingleFace(face)) =>
             IF isLaserMode
             THEN /\ lasers'[1].visible /\ lasers'[2].visible
                  /\ lasers'[1].position = mapToWorld(face[leftEyeIdx], camera)
                  /\ lasers'[2].position = mapToWorld(face[rightEyeIdx], camera)
             ELSE ~lasers'[1].visible /\ ~lasers'[2].visible]_vars

\* Both markers are shown at the mapped irises of the off-frame face under
\* the camera's current aspect.
C2_Witness ==
    /\ isLaserMode
    /\ bothVisible
    /\ lasers[1].position = mapToWorld(FaceB[leftEyeIdx], camera)
    /\ lasers[2].position = mapToWorld(FaceB[rightEyeIdx], camera)
    /\ lasers[1].position # lasers[2].position

----------------------------------------------------------------------------
(* C3 *)

\* C3: every detection callback whose result holds no face observation
\* (multiFaceLandmarks absent or empty) leaves both markers invisible, their
\* positions unchanged, and isLaserMode and isDebugMode unchanged.
C3_NoFaceHidesMarkers ==
    [][\A r \in NoFaceResults :
          onResults(r) =>
             /\ ~lasers'[1].visible /\ ~lasers'[2].visible
             /\ lasers'[1].position = lasers[1].position
             /\ lasers'[2].position = lasers[2].position
             /\ UNCHANGED <<isLaserMode, isDebugMode>>]_vars

\* The laser button was never used (it still has its stylesheet colour), so
\* the placed markers can only have been hidden by a callback without a face.
C3_Witness ==
    /\ isLaserMode
    /\ laserBtn.backgroundColor = "stylesheet"
    /\ placed
    /\ bothHidden

----------------------------------------------------------------------------
(* C4 *)

\* C4: a detection callback that delivers a face observation lacking a
\* required index leaves the visibility and the position of both markers
\* exactly as they were, for both values of isLaserMode.
C4_PartialFaceLeavesMarkers ==
    [][\A r \in PartialResults : onResults(r) => lasers' = lasers]_vars

\* The markers are shown where the centred face was mapped under the other
\* aspect ratio, and the overlay holds a mesh drawn since the resize: the
\* callback that drew it delivered no complete face and moved nothing.
C4_Witness ==
    /\ isLaserMode
    /\ bothVisible
    /\ isDebugMode
    /\ debugCanvas.drawn = 1
    /\ \E c \in Containers :
          /\ Rat(c[1], c[2]) # camera.aspect
          /\ lasers[2].position =
                mapToWorld(FaceA[rightEyeIdx], [camera EXCEPT !.aspect = Rat(c[1], c[2])])

----------------------------------------------------------------------------
(* C5 *)

\* C5 (as claimed): after a detection callback that delivers a face
\* observation lacking a required index both markers are invisible, even if
\* they were visible before it.
C5_PartialFaceHidesMarkers ==
    [][\A r \in PartialResults :
          onResults(r) => (~lasers'[1].visible /\ ~lasers'[2].visible)]_vars

\* C5 (amended): a face observation lacking a required index is skipped and
\* each marker keeps the visibility it had: markers visible before the
\* callback are still visible after it, hidden ones stay hidden.
C5_PartialFaceKeepsVisibility ==
    [][\A r \in PartialResults :
          onResults(r) =>
             \A k \in DOMAIN lasers : lasers'[k].visible = lasers[k].visible]_vars

\* The markers are still shown where the off-frame face was mapped under the
\* other aspect ratio although a callback has drawn a mesh since the resize.
C5_Witness ==
    /\ bothVisible
    /\ debugCanvas.drawn = 1
    /\ \E c \in Containers :
          /\ Rat(c[1], c[2]) # camera.aspect
          /\ lasers[1].position =
                mapToWorld(FaceB[leftEyeIdx], [camera EXCEPT !.aspect = Rat(c[1], c[2])])

----------------------------------------------------------------------------
(* C6 *)

\* C6: the session starts with isDebugMode false and isLaserMode true; the
\* laser toggle flips isLaserMode and leaves isDebugMode alone; the debug
\* toggle (the 'f' key or the 'Show Landmarks' control) changes isDebugMode
\* and leaves isLaserMode and both markers alone; detection callbacks, render
\* callbacks, resize and capture change neither flag; and no other step
\* changes a flag.
C6_FlagsChangeOnlyByOwnAction ==
    /\ (isDebugMode = FALSE /\ isLaserMode = TRUE)
    /\ [][/\ toggleLaser
             => (isLaserMode' = ~isLaserMode /\ isDebugMode' = isDebugMode)
          /\ (toggleDebug \/ landmarksControllerChange)
             => (isDebugMode' = ~isDebugMode /\ UNCHANGED <<isLaserMode, lasers>>)
          /\ \/ UNCHANGED <<isDebugMode, isLaserMode>>
             \/ ~(resultsEvent \/ animate \/ resizeEvent \/ captureImage)
          /\ (isLaserMode' # isLaserMode) => toggleLaser
          /\ (isDebugMode' # isDebugMode)
             => (toggleDebug \/ landmarksControllerChange)]_vars

\* Both flags have left their starting values: the markers, placed by a
\* detection, are hidden and a capture was drawn without the laser pipeline.
C6_Witness ==
    /\ isDebugMode
    /\ ~isLaserMode
    /\ download = "renderer"
    /\ placed

----------------------------------------------------------------------------
(* C7 *)

\* The world point w is the image of landmark l under the camera cam: the
\* frame centre goes to worldX = worldY = 0, the three coordinates are
\* -(x - 0.5) * visibleWidth, -(y - 0.5) * visibleHeight and -z * visibleWidth
\* (stated on numerators and denominators), visibleWidth is visibleHeight
\* times the aspect ratio, and an input outside [0, 1] lands outside the
\* frustum instead of on its edge.
MapsAsSpecified(l, w, cam, width, height) ==
    LET vh == Norm(visibleHeight(cam))
        vw == Norm(visibleWidth(cam))
    IN  /\ (l.x = Half /\ l.y = Half) => (w[1] = Zero /\ w[2] = Zero)
        /\ w[1][1] * (2 * l.x[2]) * vw[2] = -(2 * l.x[1] - l.x[2]) * vw[1] * w[1][2]
        /\ w[2][1] * (2 * l.y[2]) * vh[2] = -(2 * l.y[1] - l.y[2]) * vh[1] * w[2][2]
        /\ w[3][1] * l.z[2] * vw[2] = -(l.z[1] * vw[1] * w[3][2])
        /\ vh[1] > 0 /\ vw[1] > 0
        /\ cam.aspect[1] * height = cam.aspect[2] * width
        /\ vw[1] * vh[2] * cam.aspect[2] = vh[1] * cam.aspect[1] * vw[2]
        /\ RLess(<<1, 1>>, l.x) => RLess(w[1], RNeg(RMul(Half, vw)))
        /\ RLess(l.x, Zero)     => RLess(RMul(Half, vw), w[1])
        /\ RLess(<<1, 1>>, l.y) => RLess(w[2], RNeg(RMul(Half, vh)))
        /\ RLess(l.y, Zero)     => RLess(RMul(Half, vh), w[2])

\* C7: mapToWorld sends every landmark with x = y = 0.5, for every z and
\* aspect ratio, to worldX = worldY = 0, and any landmark to
\* (-(x - 0.5) * visibleWidth, -(y - 0.5) * visibleHeight, -z * visibleWidth)
\* with visibleWidth = visibleHeight * aspect, without clamping: checked on
\* the positions the detection callback gives the markers.
C7_MapToWorld ==
    [][\A face \in CompleteFaces :
          (onResults(SingleFace(face)) /\ isLaserMode) =>
             /\ MapsAsSpecified(face[leftEyeIdx], lasers'[1].position, camera,
                                debugCanvas.width, debugCanvas.height)
             /\ MapsAsSpecified(face[rightEyeIdx], lasers'[2].position, camera,
                                debugCanvas.width, debugCanvas.height)]_vars

\* The right marker sits on the optical axis at a depth other than zero (a
\* centred landmark with z = -2) and the left marker beyond the frustum's
\* edge (a landmark with x = 1.25).
C7_Witness ==
    /\ bothVisible
    /\ lasers[2].position[1] = Zero
    /\ lasers[2].position[2] = Zero
    /\ lasers[2].position[3] # Zero
    /\ RLess(lasers[1].position[1], RNeg(RMul(Half, Norm(visibleWidth(camera)))))

----------------------------------------------------------------------------
(* C9 *)

\* C9: in every reachable state, if isDebugMode is false the debug overlay
\* is empty: switching the flag off clears it in the same step, and a
\* detection callback draws connectors only while the flag is true.
C9_DebugOffOverlayEmpty ==
    ~isDebugMode => debugCanvas.drawn = 0

\* The overlay holds the meshes of a detection callback, with the flag on.
C9_Witness ==
    /\ isDebugMode
    /\ settings.showLandmarks
    /\ debugCanvas.drawn >= 2

====
